---- MODULE Spec2Model ----
(***************************************************************************)
(* Video progress tracking: the watched-interval merger and the progress   *)
(* calculator (README, "Algorithm for Progress Tracking"), the server-side *)
(* progress store that merges every update into the stored record, the     *)
(* React provider VideoContext with its requests in flight, the            *)
(* VideoPlayer component with its resume effect and interval tracker, and  *)
(* the sync client that sends the pending intervals with updateProgress.   *)
(*                                                                         *)
(* Specifications: MergeSpec, StoreSpec, ContextSpec, PlayerSpec, SyncSpec *)
(* and SyncFairSpec, each over the same variables; an action leaves the    *)
(* variables of the other parts unchanged.                                 *)
(*                                                                         *)
(* Intervals are JavaScript objects {start, end}; mergeIntervals keeps     *)
(* references to the objects of its argument, so the objects live in a     *)
(* heap (object id -> fields) and a list is a sequence of object ids.      *)
(***************************************************************************)
EXTENDS Integers, Sequences, FiniteSets

(* ---------------------------------------------------------------------- *)
(* Bounds of the model                                                     *)
(* ---------------------------------------------------------------------- *)

\* Playback positions (whole seconds) range over 0..MaxT.
MaxT == 2

\* At most MaxObj interval objects are allocated in the merger's heap.
MaxObj == 3

Times == 0..MaxT

\* Every {start, end} object over the positions, start > end included:
\* nothing in the source stops such an object from reaching mergeIntervals.
Intervals == [start : Times, end : Times]

\* The durations the calculator is called with: missing (-1, 0) and positive.
Durations == (0 - 1)..(MaxT + 1)

VARIABLES
    heap,      \* the interval objects: a sequence, object id -> [start, end]
    heap0,     \* the heap as it was before the first call
    na,        \* the objects 1..na form the list A (X), na+1..Len(heap) form B
    phase,     \* which call has returned last
    out,       \* the list (of object ids) the last mergeIntervals call returned
    outVals,   \* the field values of the list returned by the call before
    outB,      \* the list returned by mergeIntervals(B)
    secs,      \* the result of calculateUniqueWatchedTime
    duration,  \* the duration passed to calculateProgressPercentage
    pctArg,    \* "raw" or "merged": the list passed to it
    pct        \* its result

mvars == <<heap, heap0, na, phase, out, outVals, outB, secs, duration, pctArg, pct>>

\* The progress store: one (userId, videoId) record and the request handlers
\* that update it.
VARIABLES
    store,     \* the persisted WatchedState of the key
    lock,      \* the per-key lock: 0, or the handler that holds it
    pc,        \* handler -> "idle", "waiting" (request received) or "loaded"
    loaded,    \* handler -> the WatchedState it has read (empty when it holds none)
    delivered, \* history: the seconds of every interval accepted since the
               \* record was created or last reset
    lastOp     \* history: the operation that changed the store last

svars == <<store, lock, pc, loaded, delivered, lastOp>>

\* VideoContext (the React provider) and what it talks to.
VARIABLES
    isAuthenticated, \* AuthContext: useState(false)
    currentVideo,    \* useState(null): 0, or the id of the video
    progress,        \* useState(null): no data, or the WatchedState last set
    loading,         \* useState(false)
    error,           \* useState(null): "null" or a message
    calls,           \* the axios requests in flight, in the order of issue
    lastRet,         \* how the call that returned or settled last ended
    srv,             \* server: video id -> updatedAt of the user's record, 0 if none
    now              \* server: its clock

cvars == <<isAuthenticated, currentVideo, progress, loading, error, calls,
           lastRet, srv, now>>

\* The VideoPlayer component, its player and the interval tracker it feeds.
VARIABLES
    player,        \* useState(null): FALSE until onReady has set the instance
    isReady,       \* useState(false)
    playing,       \* useState(false)
    currentTime,   \* useState(0)
    lastPosition,  \* the resume position handed over by useVideoProgress
    timer,         \* the pending setTimeout of the resume effect: 0, or the
                   \* lastPosition its callback closed over
    resumeSeek,    \* the target of the last seekTo the resume effect made
    playhead,      \* the player's position
    tstate,        \* tracker: "Idle" or "Tracking"
    anchorTime,    \* tracker: start of the open interval
    watched,       \* tracker: the emitted intervals, merged
    emitted,       \* tracker: the intervals emitted, one by one
    visited        \* the seconds the playhead was at while playing

pvars == <<player, isReady, playing, currentTime, lastPosition, timer,
           resumeSeek, playhead, tstate, anchorTime, watched, emitted, visited>>

\* The sync client of useVideoProgress, which calls updateProgress.
VARIABLES
    pending,     \* the intervals emitted and not yet acknowledged
    sentBatch,   \* the intervals the request in flight carries
    syncing,     \* a request of the sync client is in flight
    syncTimer,   \* "none", "debounce" or "backoff": the scheduled send
    produced,    \* the seconds of every interval the tracker has emitted
    acked        \* the seconds of every batch acknowledged by a response

yvars == <<pending, sentBatch, syncing, syncTimer, produced, acked>>

xvars == <<cvars, pvars, yvars>>

vars == <<mvars, svars, xvars>>

(* ---------------------------------------------------------------------- *)
(* Helpers                                                                 *)
(* ---------------------------------------------------------------------- *)

\* Math.max
Max(a, b) == IF a >= b THEN a ELSE b

\* The ids m..n in ascending order.
IdSeq(m, n) == [i \in 1..(n - m + 1) |-> m + i - 1]

\* The field values of the objects a list refers to.
Vals(h, xs) == [i \in 1..Len(xs) |-> h[xs[i]]]

ListA == IdSeq(1, na)

\* All sequences over S of length at most n.
SeqsUpTo(S, n) == UNION {[1..k -> S] : k \in 0..n}

(* ---------------------------------------------------------------------- *)
(* mergeIntervals                                                          *)
(* ---------------------------------------------------------------------- *)

\* The position at which a stable sort by start places x in the sorted s:
\* after every element whose start is not greater.
InsertByStart(h, s, x) ==
    LET k == Cardinality({j \in 1..Len(s) : h[s[j]].start <= h[x].start})
    IN  SubSeq(s, 1, k) \o <<x>> \o SubSeq(s, k + 1, Len(s))

RECURSIVE SortByStart(_, _)
\* [...intervals].sort((a, b) => a.start - b.start): a new array, stable.
SortByStart(h, xs) ==
    IF xs = <<>> THEN <<>>
    ELSE InsertByStart(h, SortByStart(h, SubSeq(xs, 1, Len(xs) - 1)), xs[Len(xs)])

\* A plausible slip: the current interval is compared with the previous
\* input interval instead of the last merged one.
ShouldMergePrevInput(h, sorted, i, result) ==
    h[sorted[i]].start <= h[sorted[i - 1]].end + 1

\* A plausible slip: the tolerance is a second too wide, a gap of one
\* unwatched second is closed.
ShouldMergeAcrossGap(h, sorted, i, result) ==
    h[sorted[i]].start <= h[result[Len(result)]].end + 2

\* A plausible slip: only a true overlap is merged, adjacency is not.
ShouldMergeStrict(h, sorted, i, result) ==
    h[sorted[i]].start < h[result[Len(result)]].end

\* current.start <= lastMerged.end + 1
ShouldMerge(h, sorted, i, result) ==
    h[sorted[i]].start <= h[result[Len(result)]].end + 1

\* A plausible slip: the end of the current interval overwrites the end of
\* the last merged one, Math.max forgotten.
ExtendLastNoMax(h, last, cur) ==
    [h EXCEPT ![last].end = h[cur].end]

\* lastMerged.end = Math.max(lastMerged.end, current.end): the object the
\* result refers to is written in place.
ExtendLast(h, last, cur) ==
    [h EXCEPT ![last].end = Max(h[last].end, h[cur].end)]

RECURSIVE MergeLoop(_, _, _, _)
\* for (let i = 1; i < sortedIntervals.length; i++) { ... } return result
MergeLoop(h, sorted, i, result) ==
    IF i > Len(sorted) THEN [heap |-> h, list |-> result]
    ELSE IF ShouldMerge(h, sorted, i, result)
         THEN MergeLoop(ExtendLast(h, result[Len(result)], sorted[i]),
                        sorted, i + 1, result)
         ELSE MergeLoop(h, sorted, i + 1, Append(result, sorted[i]))

\* mergeIntervals(intervals): the returned list and the heap after the call.
MergeIntervals(h, xs) ==
    IF Len(xs) <= 1 THEN [heap |-> h, list |-> xs]
    ELSE LET sorted == SortByStart(h, xs)
         IN  MergeLoop(h, sorted, 2, <<sorted[1]>>)

(* ---------------------------------------------------------------------- *)
(* calculateUniqueWatchedTime, calculateProgressPercentage                 *)
(* ---------------------------------------------------------------------- *)

\* A plausible slip: the inclusive end is counted twice.
IntervalSecondsOffByOne(iv) == iv.end - iv.start + 2

\* interval.end - interval.start + 1
IntervalSeconds(iv) == iv.end - iv.start + 1

RECURSIVE SumSeconds(_)
\* intervals.reduce((total, interval) => total + ..., 0) over field values
SumSeconds(vs) ==
    IF vs = <<>> THEN 0
    ELSE SumSeconds(SubSeq(vs, 1, Len(vs) - 1)) + IntervalSeconds(vs[Len(vs)])

calculateUniqueWatchedTime(h, xs) == SumSeconds(Vals(h, xs))

\* (total / duration) * 100 in IEEE-754 arithmetic.  A finite result is kept
\* as the exact fraction num/den with den > 0 (rounding is monotonic and
\* exact at 0 and at 100, so comparisons with 0, 100 and between results of
\* one duration are those of the fraction); a division by zero gives
\* Infinity, -Infinity or NaN and raises nothing.
Percentage(total, d) ==
    IF d = 0
    THEN [kind |-> (IF total > 0 THEN "Infinity"
                    ELSE IF total < 0 THEN "-Infinity" ELSE "NaN"),
          num |-> 0, den |-> 1]
    ELSE IF d > 0
         THEN [kind |-> "number", num |-> total * 100, den |-> d]
         ELSE [kind |-> "number", num |-> (0 - total) * 100, den |-> 0 - d]

calculateProgressPercentage(h, xs, d) ==
    Percentage(calculateUniqueWatchedTime(h, xs), d)

(* ---------------------------------------------------------------------- *)
(* ProgressStore: applyUpdate, resetProgress (the server behind             *)
(* POST and DELETE /api/progress/:videoId)                                 *)
(* ---------------------------------------------------------------------- *)

\* The request handlers that may run at once.
NumWorkers == 2

\* A request body carries at most MaxBatch intervals.
MaxBatch == 1

Workers == 1..NumWorkers

\* The video's duration in seconds: positions are clamped to
\* [0, VideoDuration - 1] before they are sent.
VideoDuration == MaxT + 1

\* mergeIntervals applied to a list given by value (a parsed request body, a
\* loaded row): fresh objects, and the values of the returned list.
MergeVals(vs) ==
    LET r == MergeIntervals(vs, IdSeq(1, Len(vs)))
    IN  Vals(r.heap, r.list)

\* The empty initial WatchedState.
EmptyState ==
    [intervals |-> <<>>, lastPosition |-> 0,
     progressPercentage |-> Percentage(0, VideoDuration)]

\* The members of a request's batch with start <= end: an invalid interval
\* is rejected alone, the rest of the batch is processed.
Accepted(batch) == SelectSeq(batch, LAMBDA iv : iv.start <= iv.end)

\* applyUpdate's new WatchedState: existing.intervals united with the
\* accepted new intervals and merged, the percentage recomputed from the
\* merged list, lastPosition overwritten by the reported position.
ApplyUpdate(existing, newIntervals, reportedPosition) ==
    LET merged == MergeVals(existing.intervals \o Accepted(newIntervals))
    IN  [intervals |-> merged,
         lastPosition |-> reportedPosition,
         progressPercentage |->
             calculateProgressPercentage(merged, IdSeq(1, Len(merged)),
                                         VideoDuration)]

\* The seconds a list of intervals (given by value) contains.
Covered(vs) == UNION {vs[i].start..vs[i].end : i \in 1..Len(vs)}

\* The store with no request in progress: the state after construction.
StoreIdle ==
    /\ store = EmptyState
    /\ lock = 0
    /\ pc = [w \in Workers |-> "idle"]
    /\ loaded = [w \in Workers |-> EmptyState]
    /\ delivered = {}
    /\ lastOp = "none"

(* ---------------------------------------------------------------------- *)
(* VideoContext: getVideo, getVideoProgress, updateProgress, resetProgress *)
(* ---------------------------------------------------------------------- *)

\* The videos of the catalogue are 1..NumVideos.
NumVideos == 2

\* At most MaxCalls requests are in flight at once.
MaxCalls == 2

\* The server's clock stops at MaxClock.
MaxClock == 2

Videos == 1..NumVideos

\* res.data.data / res.data.progress: absent (null), or a WatchedState.
\* VideoContext hands the record on unread, so it is kept as its key and
\* its updatedAt stamp.
NullData == [some |-> FALSE, videoId |-> 0, updatedAt |-> 0]

Data(v, t) == [some |-> TRUE, videoId |-> v, updatedAt |-> t]

ProgressOps == {"get", "post", "delete"}

\* A request in flight.  auth is the isAuthenticated of the render whose
\* callback issued it; stage is "sent" until the server has answered;
\* stale says that the response to an update issued later for the same
\* video has been handled already.
Call(k, v, a) ==
    [kind |-> k, vid |-> v, auth |-> a, stage |-> "sent", data |-> NullData,
     stale |-> FALSE]

Ret(op, how, value) == [op |-> op, how |-> how, value |-> value]

RemoveAt(cs, i) == SubSeq(cs, 1, i - 1) \o SubSeq(cs, i + 1, Len(cs))

\* A slip: the guard on isAuthenticated is missing.
SkipsNever(auth) == FALSE

\* if (!isAuthenticated) { ...; return null; }
SkipsWhenAnonymous(auth) == ~auth

\* A slip: the response is adopted only when no progress is held yet.
AdoptIfNone(held, data) == IF held.some THEN held ELSE data

\* setProgress(res.data.data): the response replaces the held state.
Adopt(held, data) == data

\* The state after construction, with the server's store empty.
ClientIdle ==
    /\ isAuthenticated = FALSE
    /\ currentVideo = 0
    /\ progress = NullData
    /\ loading = FALSE
    /\ error = "null"
    /\ calls = <<>>
    /\ lastRet = Ret("none", "none", NullData)
    /\ srv = [v \in Videos |-> 0]
    /\ now = 0

\* resumeSeek while the resume effect has made no seek.
NoSeek == 0 - 1

\* The VideoPlayer component after construction, nothing played yet.
PlayerIdle ==
    /\ player = FALSE
    /\ isReady = FALSE
    /\ playing = FALSE
    /\ currentTime = 0
    /\ lastPosition = 0
    /\ timer = 0
    /\ resumeSeek = NoSeek
    /\ playhead = 0
    /\ tstate = "Idle"
    /\ anchorTime = 0
    /\ watched = <<>>
    /\ emitted = <<>>
    /\ visited = {}

\* The sync client with nothing emitted yet.
SyncIdle ==
    /\ pending = {}
    /\ sentBatch = {}
    /\ syncing = FALSE
    /\ syncTimer = "none"
    /\ produced = {}
    /\ acked = {}

\* AuthContext.login / register / loadUser: setIsAuthenticated(true)
Login ==
    /\ ~isAuthenticated
    /\ isAuthenticated' = TRUE
    /\ UNCHANGED <<currentVideo, progress, loading, error, calls, lastRet, srv, now>>
    /\ UNCHANGED <<mvars, svars, pvars, yvars>>

\* AuthContext.logout: setIsAuthenticated(false)
Logout ==
    /\ isAuthenticated
    /\ isAuthenticated' = FALSE
    /\ UNCHANGED <<currentVideo, progress, loading, error, calls, lastRet, srv, now>>
    /\ UNCHANGED <<mvars, svars, pvars, yvars>>

\* getVideo(id) up to its await: setLoading(true); axios.get(/videos/id)
CallGetVideo(v) ==
    /\ Len(calls) < MaxCalls
    /\ loading' = TRUE
    /\ calls' = Append(calls, Call("video", v, isAuthenticated))
    /\ lastRet' = Ret("video", "pending", NullData)
    /\ UNCHANGED <<isAuthenticated, currentVideo, progress, error, srv, now>>
    /\ UNCHANGED <<mvars, svars, pvars, yvars>>

\* getVideoProgress(videoId) / updateProgress(videoId, data) /
\* resetProgress(videoId) up to the await, with the callbacks of the
\* current render.
IssueProgressOp(op, v) ==
    /\ op \in ProgressOps
    /\ v = currentVideo
    /\ IF SkipsWhenAnonymous(isAuthenticated)
       THEN /\ lastRet' = Ret(op, "skipped", NullData)
            /\ UNCHANGED calls
       ELSE /\ Len(calls) < MaxCalls
            /\ calls' = Append(calls, Call(op, v, isAuthenticated))
            /\ lastRet' = Ret(op, "pending", NullData)
    /\ UNCHANGED <<isAuthenticated, currentVideo, progress, loading, error, srv, now>>

\* A component of the current video calls getVideoProgress, updateProgress
\* or resetProgress.
CallProgressOp(op, v) ==
    /\ IssueProgressOp(op, v)
    /\ UNCHANGED <<mvars, svars, pvars, yvars>>

\* The server answers GET /videos/:id: the video, and with it the user's
\* progress record or not.
ServeVideo(i) ==
    /\ i \in 1..Len(calls)
    /\ calls[i].kind = "video"
    /\ calls[i].stage = "sent"
    /\ \E d \in IF srv[calls[i].vid] = 0
                 THEN {NullData}
                 ELSE {NullData, Data(calls[i].vid, srv[calls[i].vid])} :
          calls' = [calls EXCEPT ![i].stage = "answered", ![i].data = d]
    /\ UNCHANGED <<isAuthenticated, currentVideo, progress, loading, error, lastRet, srv, now>>
    /\ UNCHANGED <<mvars, svars, pvars, yvars>>

\* The server answers GET /progress/:videoId: the record, or no data.
ServeGet(i) ==
    /\ i \in 1..Len(calls)
    /\ calls[i].kind = "get"
    /\ calls[i].stage = "sent"
    /\ LET v == calls[i].vid
           d == IF srv[v] = 0 THEN NullData ELSE Data(v, srv[v])
       IN  calls' = [calls EXCEPT ![i].stage = "answered", ![i].data = d]
    /\ UNCHANGED <<isAuthenticated, currentVideo, progress, loading, error, lastRet, srv, now>>
    /\ UNCHANGED <<mvars, svars, pvars, yvars>>

\* The server answers POST or DELETE /progress/:videoId: the record is
\* written (merged, or replaced by the empty state) and returned.
ServeWrite(i) ==
    /\ i \in 1..Len(calls)
    /\ calls[i].kind \in {"post", "delete"}
    /\ calls[i].stage = "sent"
    /\ now < MaxClock
    /\ now' = now + 1
    /\ srv' = [srv EXCEPT ![calls[i].vid] = now + 1]
    /\ calls' = [calls EXCEPT ![i].stage = "answered",
                              ![i].data = Data(calls[i].vid, now + 1)]
    /\ UNCHANGED <<isAuthenticated, currentVideo, progress, loading, error, lastRet>>
    /\ UNCHANGED <<mvars, svars, pvars, yvars>>

\* getVideo after its await, the response has arrived:
\* setCurrentVideo; progress set from the response, or fetched; setError(null);
\* setLoading(false).
DeliverVideo(i) ==
    /\ i \in 1..Len(calls)
    /\ calls[i].kind = "video"
    /\ calls[i].stage = "answered"
    /\ currentVideo' = calls[i].vid
    /\ IF calls[i].auth /\ calls[i].data.some
       THEN /\ progress' = Adopt(progress, calls[i].data)
            /\ calls' = RemoveAt(calls, i)
       ELSE IF calls[i].auth
            THEN /\ calls' = IF SkipsWhenAnonymous(calls[i].auth)
                             THEN RemoveAt(calls, i)
                             ELSE Append(RemoveAt(calls, i),
                                         Call("get", calls[i].vid, calls[i].auth))
                 /\ UNCHANGED progress
            ELSE /\ calls' = RemoveAt(calls, i)
                 /\ UNCHANGED progress
    /\ error' = "null"
    /\ loading' = FALSE
    /\ lastRet' = Ret("video", "resolved", calls[i].data)
    /\ UNCHANGED <<isAuthenticated, srv, now>>
    /\ UNCHANGED <<mvars, svars, pvars, yvars>>

\* getVideo, catch: setError(message); throw err; setLoading(false).
FailVideo(i) ==
    /\ i \in 1..Len(calls)
    /\ calls[i].kind = "video"
    /\ calls' = RemoveAt(calls, i)
    /\ error' = "Error fetching video"
    /\ loading' = FALSE
    /\ lastRet' = Ret("video", "threw", NullData)
    /\ UNCHANGED <<isAuthenticated, currentVideo, progress, srv, now>>
    /\ UNCHANGED <<mvars, svars, pvars, yvars>>

\* The calls issued before call i for the same video and of the same kind
\* learn that a later response has been handled.
MarkOlder(cs, i) ==
    [j \in 1..Len(cs) |->
        IF j < i /\ cs[j].kind = cs[i].kind /\ cs[j].vid = cs[i].vid
        THEN [cs[j] EXCEPT !.stale = TRUE]
        ELSE cs[j]]

\* getVideoProgress / updateProgress / resetProgress after the await:
\* if (res.data.success && res.data.data) { setProgress; setError(null);
\* return res.data.data; } return null;
HandleResponse(i) ==
    /\ i \in 1..Len(calls)
    /\ calls[i].kind \in ProgressOps
    /\ calls[i].stage = "answered"
    /\ IF calls[i].data.some
       THEN /\ progress' = Adopt(progress, calls[i].data)
            /\ error' = "null"
            /\ lastRet' = Ret(calls[i].kind, "resolved", calls[i].data)
            /\ calls' = RemoveAt(MarkOlder(calls, i), i)
       ELSE /\ lastRet' = Ret(calls[i].kind, "resolved", NullData)
            /\ calls' = RemoveAt(calls, i)
            /\ UNCHANGED <<progress, error>>
    /\ UNCHANGED <<isAuthenticated, currentVideo, loading, srv, now>>

\* The response to a progress call arrives.
DeliverProgress(i) ==
    /\ HandleResponse(i)
    /\ UNCHANGED <<mvars, svars, pvars, yvars>>

\* A slip: the catch block reports the failure as getVideo's does.
ErrorSetOnFailure(e) == "Error updating progress"

\* catch: "Don't set error state for progress update failures".
ErrorAfterFailure(e) == e

\* getVideoProgress / updateProgress / resetProgress, catch: the request
\* failed (network or server error); no state is set; return null.
HandleFailure(i) ==
    /\ i \in 1..Len(calls)
    /\ calls[i].kind \in ProgressOps
    /\ calls' = RemoveAt(calls, i)
    /\ error' = ErrorAfterFailure(error)
    /\ lastRet' = Ret(calls[i].kind, "failed", NullData)
    /\ UNCHANGED <<isAuthenticated, currentVideo, progress, loading, srv, now>>

\* A progress call fails.
FailProgress(i) ==
    /\ HandleFailure(i)
    /\ UNCHANGED <<mvars, svars, pvars, yvars>>

\* clearError: setError(null)
ClearError ==
    /\ error # "null"
    /\ error' = "null"
    /\ UNCHANGED <<isAuthenticated, currentVideo, progress, loading, calls, lastRet, srv, now>>
    /\ UNCHANGED <<mvars, svars, pvars, yvars>>

CInit ==
    /\ heap = <<>>
    /\ heap0 = <<>>
    /\ na = 0
    /\ phase = "init"
    /\ out = <<>>
    /\ outVals = <<>>
    /\ outB = <<>>
    /\ secs = 0
    /\ duration = 0
    /\ pctArg = "none"
    /\ pct = [kind |-> "none", num |-> 0, den |-> 1]
    /\ StoreIdle
    /\ ClientIdle
    /\ PlayerIdle
    /\ SyncIdle

CNext ==
    \/ Login
    \/ Logout
    \/ \E v \in Videos : CallGetVideo(v)
    \/ \E op \in ProgressOps, v \in Videos : CallProgressOp(op, v)
    \/ \E i \in 1..MaxCalls : ServeVideo(i)
    \/ \E i \in 1..MaxCalls : ServeGet(i)
    \/ \E i \in 1..MaxCalls : ServeWrite(i)
    \/ \E i \in 1..MaxCalls : DeliverVideo(i)
    \/ \E i \in 1..MaxCalls : FailVideo(i)
    \/ \E i \in 1..MaxCalls : DeliverProgress(i)
    \/ \E i \in 1..MaxCalls : FailProgress(i)
    \/ ClearError

ContextSpec == CInit /\ [][CNext]_vars

(* ---------------------------------------------------------------------- *)
(* VideoPlayer: the resume effect, the player callbacks, the tracker       *)
(* ---------------------------------------------------------------------- *)

\* The log of emitted intervals keeps the first MaxEmitted of them.
MaxEmitted == 2

\* The resume positions a stored WatchedState may hold: any reported
\* position, the end of the video included.
Positions == 0..VideoDuration

\* The second the player is at after seekTo(t): a target past the last
\* second leaves it at the end.
Landed(t) == IF t \in Times THEN t ELSE MaxT

\* Close the open interval: [anchorTime, currentTime] is emitted and merged
\* with the intervals accumulated so far.
CloseInterval(acc, a, t) == MergeVals(Append(acc, [start |-> a, end |-> t]))

\* if (player && isReady && lastPosition > 0)
ShouldResume(p, ready, pos) == p /\ ready /\ pos > 0

\* The resume effect run for the dependencies [player, lastPosition,
\* isReady]: the cleanup clears the timer of the previous run, and a new
\* one is set when the condition holds.
ResumeEffect(p, ready, pos) ==
    IF ShouldResume(p, ready, pos) THEN pos ELSE 0

\* useVideoProgress hands over the lastPosition of the stored WatchedState
\* once it has been fetched; the resume effect runs for the new value.
LoadLastPosition(pos) ==
    /\ lastPosition = 0
    /\ pos \in Positions \ {0}
    /\ lastPosition' = pos
    /\ timer' = ResumeEffect(player, isReady, pos)
    /\ UNCHANGED <<player, isReady, playing, currentTime, resumeSeek, playhead,
                   tstate, anchorTime, watched, emitted, visited>>
    /\ UNCHANGED <<mvars, svars, cvars, yvars>>

\* onReady: setPlayerReference(internalPlayer); the effect on [player,
\* isReady] then sets isReady, and the resume effect runs.
OnReady ==
    /\ ~player
    /\ player' = TRUE
    /\ isReady' = TRUE
    /\ timer' = ResumeEffect(TRUE, TRUE, lastPosition)
    /\ UNCHANGED <<playing, currentTime, lastPosition, resumeSeek, playhead,
                   tstate, anchorTime, watched, emitted, visited>>
    /\ UNCHANGED <<mvars, svars, cvars, yvars>>

\* The tracker's part of a seek to target t: while Tracking the open
\* interval is closed at the pre-seek time and emitted, and a new one is
\* opened at the destination; while Idle nothing is recorded.
TrackSeek(t) ==
    IF tstate = "Tracking"
    THEN /\ watched' = CloseInterval(watched, anchorTime, playhead)
         /\ emitted' = IF Len(emitted) < MaxEmitted
                       THEN Append(emitted, [start |-> anchorTime, end |-> playhead])
                       ELSE emitted
         /\ anchorTime' = Landed(t)
         /\ visited' = visited \cup {Landed(t)}
         /\ UNCHANGED tstate
    ELSE UNCHANGED <<tstate, anchorTime, watched, emitted, visited>>

\* The resume timer fires: player.seekTo(lastPosition);
\* setCurrentTime(lastPosition); the player then reports the seek (onSeek).
ResumeTimerFires ==
    /\ timer # 0
    /\ resumeSeek' = timer
    /\ playhead' = Landed(timer)
    /\ currentTime' = Landed(timer)
    /\ timer' = 0
    /\ TrackSeek(timer)
    /\ UNCHANGED <<player, isReady, playing, lastPosition>>
    /\ UNCHANGED <<mvars, svars, cvars, yvars>>

\* onPlay: setPlaying(true); handlePlay(): while Idle a new interval is
\* opened at the current playback time.
OnPlay ==
    /\ player
    /\ tstate = "Idle"
    /\ playing' = TRUE
    /\ tstate' = "Tracking"
    /\ anchorTime' = playhead
    /\ visited' = visited \cup {playhead}
    /\ UNCHANGED <<player, isReady, currentTime, lastPosition, timer, resumeSeek,
                   playhead, watched, emitted>>
    /\ UNCHANGED <<mvars, svars, cvars, yvars>>

\* onProgress while playing: the playhead has advanced by a second;
\* setCurrentTime(state.playedSeconds).  The open interval's provisional
\* end follows the playhead.
OnProgress ==
    /\ tstate = "Tracking"
    /\ playhead < MaxT
    /\ playhead' = playhead + 1
    /\ currentTime' = playhead + 1
    /\ visited' = visited \cup {playhead + 1}
    /\ UNCHANGED <<player, isReady, playing, lastPosition, timer, resumeSeek,
                   tstate, anchorTime, watched, emitted>>
    /\ UNCHANGED <<mvars, svars, cvars, yvars>>

\* onPause: setPlaying(false); handlePause() / onEnded: setPlaying(false);
\* handleEnded(): the open interval is closed at the current playback time
\* and emitted.  The video ends at its last second only.
OnPauseOrEnded(ended) ==
    /\ tstate = "Tracking"
    /\ ended => playhead = MaxT
    /\ playing' = FALSE
    /\ tstate' = "Idle"
    /\ watched' = CloseInterval(watched, anchorTime, playhead)
    /\ emitted' = IF Len(emitted) < MaxEmitted
                  THEN Append(emitted, [start |-> anchorTime, end |-> playhead])
                  ELSE emitted
    /\ UNCHANGED <<player, isReady, currentTime, lastPosition, timer, resumeSeek,
                   playhead, anchorTime, visited>>
    /\ UNCHANGED <<mvars, svars, cvars, yvars>>

\* onSeek(seconds): setCurrentTime(seconds); handleSeek(seconds), the user
\* having moved the playhead to seconds.
OnSeek(t) ==
    /\ player
    /\ t \in Times
    /\ t # playhead
    /\ playhead' = t
    /\ currentTime' = t
    /\ TrackSeek(t)
    /\ UNCHANGED <<player, isReady, playing, lastPosition, timer, resumeSeek>>
    /\ UNCHANGED <<mvars, svars, cvars, yvars>>

PInit ==
    /\ heap = <<>>
    /\ heap0 = <<>>
    /\ na = 0
    /\ phase = "init"
    /\ out = <<>>
    /\ outVals = <<>>
    /\ outB = <<>>
    /\ secs = 0
    /\ duration = 0
    /\ pctArg = "none"
    /\ pct = [kind |-> "none", num |-> 0, den |-> 1]
    /\ StoreIdle
    /\ ClientIdle
    /\ PlayerIdle
    /\ SyncIdle

PNext ==
    \/ \E pos \in Positions : LoadLastPosition(pos)
    \/ OnReady
    \/ ResumeTimerFires
    \/ OnPlay
    \/ OnProgress
    \/ \E ended \in BOOLEAN : OnPauseOrEnded(ended)
    \/ \E t \in Times : OnSeek(t)

PlayerSpec == PInit /\ [][PNext]_vars

(* ---------------------------------------------------------------------- *)
(* The sync client: debounced, coalesced calls of updateProgress           *)
(* ---------------------------------------------------------------------- *)

\* At most MaxPending intervals wait for an acknowledgement at once.
MaxPending == 2

\* The intervals the tracker emits: start <= end, within the video.
TrackedIntervals == {iv \in Intervals : iv.start <= iv.end}

\* The seconds the intervals of a set contain.
CoveredBy(S) == UNION {iv.start..iv.end : iv \in S}

\* A slip: a send is made although a request is in flight.
MaySendAlways(busy) == TRUE

\* In-flight requests are not duplicated.
MaySend(busy) == ~busy

\* A signed-in user watching video 1, nothing fetched yet.
ClientWatching ==
    /\ isAuthenticated = TRUE
    /\ currentVideo = 1
    /\ progress = NullData
    /\ loading = FALSE
    /\ error = "null"
    /\ calls = <<>>
    /\ lastRet = Ret("none", "none", NullData)
    /\ srv = [v \in Videos |-> 0]
    /\ now = 0

\* pause, seek, ended or heartbeat: the tracker has emitted an interval; it
\* joins the pending ones and a send is scheduled unless one is already.
Trigger(iv) ==
    /\ iv \in TrackedIntervals \ pending
    /\ Cardinality(pending) < MaxPending
    /\ pending' = pending \cup {iv}
    /\ produced' = produced \cup (iv.start..iv.end)
    /\ syncTimer' = IF syncTimer = "none" THEN "debounce" ELSE syncTimer
    /\ UNCHANGED <<sentBatch, syncing, acked>>
    /\ UNCHANGED <<mvars, svars, cvars, pvars>>

\* The debounce or backoff timer fires: the pending batch as it is now is
\* sent with updateProgress, unless a request is in flight; then the
\* pending intervals wait for its response.
SyncTimerFires ==
    /\ syncTimer # "none"
    /\ syncTimer' = "none"
    /\ IF MaySend(syncing) /\ pending # {}
       THEN /\ IssueProgressOp("post", currentVideo)
            /\ sentBatch' = pending
            /\ syncing' = ~SkipsWhenAnonymous(isAuthenticated)
       ELSE UNCHANGED <<cvars, sentBatch, syncing>>
    /\ UNCHANGED <<pending, produced, acked>>
    /\ UNCHANGED <<mvars, svars, pvars>>

\* updateProgress resolves with the server's state: the batch sent is
\* acknowledged and leaves the pending set; what was emitted meanwhile is
\* scheduled for the next send.
SyncAcknowledged(i) ==
    /\ HandleResponse(i)
    /\ calls[i].kind = "post"
    /\ calls[i].data.some
    /\ pending' = pending \ sentBatch
    /\ acked' = acked \cup CoveredBy(sentBatch)
    /\ sentBatch' = {}
    /\ syncing' = FALSE
    /\ syncTimer' = IF pending \ sentBatch = {} THEN "none" ELSE "debounce"
    /\ UNCHANGED produced
    /\ UNCHANGED <<mvars, svars, pvars>>

\* updateProgress resolves with null after a network or server error: the
\* pending intervals are kept and a retry is scheduled.
SyncFailed(i) ==
    /\ HandleFailure(i)
    /\ calls[i].kind = "post"
    /\ sentBatch' = {}
    /\ syncing' = FALSE
    /\ syncTimer' = "backoff"
    /\ UNCHANGED <<pending, produced, acked>>
    /\ UNCHANGED <<mvars, svars, pvars>>

YInit ==
    /\ heap = <<>>
    /\ heap0 = <<>>
    /\ na = 0
    /\ phase = "init"
    /\ out = <<>>
    /\ outVals = <<>>
    /\ outB = <<>>
    /\ secs = 0
    /\ duration = 0
    /\ pctArg = "none"
    /\ pct = [kind |-> "none", num |-> 0, den |-> 1]
    /\ StoreIdle
    /\ ClientWatching
    /\ PlayerIdle
    /\ SyncIdle

YNext ==
    \/ \E iv \in TrackedIntervals : Trigger(iv)
    \/ SyncTimerFires
    \/ \E i \in 1..MaxCalls : ServeWrite(i)
    \/ \E i \in 1..MaxCalls : SyncAcknowledged(i)
    \/ \E i \in 1..MaxCalls : SyncFailed(i)

SyncSpec == YInit /\ [][YNext]_vars

\* A timer that has been set fires: the event loop runs the callback of a
\* setTimeout that is not cleared.
SyncFairSpec == SyncSpec /\ WF_vars(SyncTimerFires)

(* ---------------------------------------------------------------------- *)
(* The merger and the calculator applied to every bounded input            *)
(* ---------------------------------------------------------------------- *)

NoPct == [kind |-> "none", num |-> 0, den |-> 1]

MInit ==
    /\ heap \in SeqsUpTo(Intervals, MaxObj)
    /\ heap0 = heap
    /\ na = Len(heap)
    /\ phase = "init"
    /\ out = <<>>
    /\ outVals = <<>>
    /\ outB = <<>>
    /\ secs = 0
    /\ duration = 0
    /\ pctArg = "none"
    /\ pct = NoPct
    /\ StoreIdle
    /\ ClientIdle
    /\ PlayerIdle
    /\ SyncIdle

\* result = mergeIntervals(X)
CallMerge ==
    /\ phase = "init"
    /\ LET r == MergeIntervals(heap, ListA)
       IN  /\ heap' = r.heap
           /\ out' = r.list
    /\ phase' = "merged"
    /\ UNCHANGED <<heap0, na, outVals, outB, secs, duration, pctArg, pct>>
    /\ UNCHANGED svars
    /\ UNCHANGED xvars

\* again = mergeIntervals(result)
CallMergeAgain ==
    /\ phase = "merged"
    /\ LET r == MergeIntervals(heap, out)
       IN  /\ heap' = r.heap
           /\ out' = r.list
    /\ outVals' = Vals(heap, out)
    /\ phase' = "remerged"
    /\ UNCHANGED <<heap0, na, outB, secs, duration, pctArg, pct>>
    /\ UNCHANGED svars
    /\ UNCHANGED xvars

\* calculateUniqueWatchedTime(result)
CallUnique ==
    /\ phase = "merged"
    /\ secs' = calculateUniqueWatchedTime(heap, out)
    /\ phase' = "counted"
    /\ UNCHANGED <<heap, heap0, na, out, outVals, outB, duration, pctArg, pct>>
    /\ UNCHANGED svars
    /\ UNCHANGED xvars

\* calculateProgressPercentage(X, d) on the raw list
CallPercentageRaw ==
    /\ phase = "init"
    /\ \E d \in Durations :
          /\ duration' = d
          /\ pct' = calculateProgressPercentage(heap, ListA, d)
    /\ pctArg' = "raw"
    /\ phase' = "percent"
    /\ UNCHANGED <<heap, heap0, na, out, outVals, outB, secs>>
    /\ UNCHANGED svars
    /\ UNCHANGED xvars

\* calculateProgressPercentage(mergeIntervals(X), d)
CallPercentageMerged ==
    /\ phase = "merged"
    /\ \E d \in Durations :
          /\ duration' = d
          /\ pct' = calculateProgressPercentage(heap, out, d)
    /\ pctArg' = "merged"
    /\ phase' = "percent"
    /\ UNCHANGED <<heap, heap0, na, out, outVals, outB, secs>>
    /\ UNCHANGED svars
    /\ UNCHANGED xvars

\* The objects are split into a list A (the first k) and a list B (the
\* rest), and mergedB = mergeIntervals(B) is called.
CallMergeB ==
    /\ phase = "init"
    /\ \E k \in 0..Len(heap) :
          /\ na' = k
          /\ LET r == MergeIntervals(heap, IdSeq(k + 1, Len(heap)))
             IN  /\ heap' = r.heap
                 /\ outB' = r.list
    /\ phase' = "mergedB"
    /\ UNCHANGED <<heap0, out, outVals, secs, duration, pctArg, pct>>
    /\ UNCHANGED svars
    /\ UNCHANGED xvars

\* mergeIntervals([...A, ...mergedB])
CallMergeUnion ==
    /\ phase = "mergedB"
    /\ LET r == MergeIntervals(heap, ListA \o outB)
       IN  /\ heap' = r.heap
           /\ out' = r.list
    /\ phase' = "unionMerged"
    /\ UNCHANGED <<heap0, na, outVals, outB, secs, duration, pctArg, pct>>
    /\ UNCHANGED svars
    /\ UNCHANGED xvars

MNext ==
    \/ CallMerge
    \/ CallMergeAgain
    \/ CallUnique
    \/ CallPercentageRaw
    \/ CallPercentageMerged
    \/ CallMergeB
    \/ CallMergeUnion

MergeSpec == MInit /\ [][MNext]_vars

(* ---------------------------------------------------------------------- *)
(* The store under concurrent requests for one (userId, videoId) key       *)
(* ---------------------------------------------------------------------- *)

SInit ==
    /\ heap = <<>>
    /\ heap0 = <<>>
    /\ na = 0
    /\ phase = "init"
    /\ out = <<>>
    /\ outVals = <<>>
    /\ outB = <<>>
    /\ secs = 0
    /\ duration = 0
    /\ pctArg = "none"
    /\ pct = NoPct
    /\ StoreIdle
    /\ ClientIdle
    /\ PlayerIdle
    /\ SyncIdle

\* A POST /progress/:videoId request reaches handler w.
Receive(w) ==
    /\ pc[w] = "idle"
    /\ pc' = [pc EXCEPT ![w] = "waiting"]
    /\ UNCHANGED <<store, lock, loaded, delivered, lastOp>>
    /\ UNCHANGED mvars
    /\ UNCHANGED xvars

\* applyUpdate, first half: the handler takes the key's lock and loads the
\* existing WatchedState.
AcquireAndLoad(w) ==
    /\ pc[w] = "waiting"
    /\ lock = 0
    /\ lock' = w
    /\ loaded' = [loaded EXCEPT ![w] = store]
    /\ pc' = [pc EXCEPT ![w] = "loaded"]
    /\ UNCHANGED <<store, delivered, lastOp>>
    /\ UNCHANGED mvars
    /\ UNCHANGED xvars

\* applyUpdate, second half: merge, recompute, persist the whole record and
\* release the lock.  The body of the request (its intervals and its
\* reported position) is read here, where it is first used.
MergeAndPersist(w) ==
    /\ pc[w] = "loaded"
    /\ lock = w
    /\ \E batch \in SeqsUpTo(Intervals, MaxBatch), pos \in Times :
          /\ store' = ApplyUpdate(loaded[w], batch, pos)
          /\ delivered' = delivered \cup Covered(Accepted(batch))
    /\ lock' = 0
    /\ pc' = [pc EXCEPT ![w] = "idle"]
    /\ lastOp' = "update"
    /\ loaded' = [loaded EXCEPT ![w] = EmptyState]
    /\ UNCHANGED mvars
    /\ UNCHANGED xvars

\* resetProgress: the record is replaced by the empty initial state, under
\* the key's lock.
ResetProgress ==
    /\ lock = 0
    /\ store # EmptyState
    /\ store' = EmptyState
    /\ delivered' = {}
    /\ lastOp' = "reset"
    /\ UNCHANGED <<lock, pc, loaded>>
    /\ UNCHANGED mvars
    /\ UNCHANGED xvars

SNext ==
    \/ \E w \in Workers : Receive(w)
    \/ \E w \in Workers : AcquireAndLoad(w)
    \/ \E w \in Workers : MergeAndPersist(w)
    \/ ResetProgress

StoreSpec == SInit /\ [][SNext]_vars

(* ---------------------------------------------------------------------- *)
(* Properties of the merger and the calculator                             *)
(* ---------------------------------------------------------------------- *)

\* start <= end
Valid(iv) == iv.start <= iv.end

AllValid(vs) == \A i \in 1..Len(vs) : Valid(vs[i])

\* Sorted ascending by start, and neither overlapping nor adjacent.
Canonical(vs) ==
    \A i \in 1..(Len(vs) - 1) :
        /\ vs[i].start <= vs[i + 1].start
        /\ vs[i + 1].start > vs[i].end + 1

\* Every bound lies in [0, d-1].
WithinDuration(vs, d) ==
    \A i \in 1..Len(vs) :
        /\ 0 <= vs[i].start /\ vs[i].start <= d - 1
        /\ 0 <= vs[i].end /\ vs[i].end <= d - 1

\* The list X as it was passed: every object, with the fields it had.
InputVals == Vals(heap0, IdSeq(1, Len(heap0)))

\* The members of a list with start <= end, in the list's order.
ValidMembers(h, xs) == SelectSeq(xs, LAMBDA x : Valid(h[x]))

\* C1: for every list X of valid intervals (start <= end), mergeIntervals(X)
\* is sorted ascending by start and every consecutive pair of it satisfies
\* next.start > current.end + 1.
C1_CanonicalForm ==
    (phase = "merged" /\ AllValid(InputVals)) => Canonical(Vals(heap, out))

\* C1's case: three valid intervals given out of order, of which two were
\* merged into one and the third, beyond a gap, was appended.
C1_Witness ==
    /\ phase = "merged"
    /\ AllValid(InputVals)
    /\ Len(heap0) = 3
    /\ heap0[1].start > heap0[3].start
    /\ Len(out) = 2

\* C2: for every duration d > 0 and every list X whose bounds all lie in
\* [0, d-1], calculateUniqueWatchedTime(mergeIntervals(X)) <= d.
C2_UpperBound ==
    phase = "counted" =>
        \A d \in 1..(MaxT + 1) : WithinDuration(InputVals, d) => secs <= d

\* C2's case: replays and overlaps whose raw lengths add up to more than
\* the duration, counted once each after the merge: the whole video.
C2_Witness ==
    /\ phase = "counted"
    /\ AllValid(InputVals)
    /\ Len(heap0) = 3
    /\ WithinDuration(InputVals, MaxT + 1)
    /\ SumSeconds(InputVals) > MaxT + 1
    /\ secs = MaxT + 1

\* C3: mergeIntervals(mergeIntervals(X)) equals mergeIntervals(X), field
\* by field, for every interval list X.
C3_Idempotent ==
    phase = "remerged" => Vals(heap, out) = outVals

\* C3's case: the second call is given the two intervals that the first
\* call made of three.
C3_Witness ==
    /\ phase = "remerged"
    /\ AllValid(InputVals)
    /\ Len(heap0) = 3
    /\ Len(outVals) = 2

\* C4: for all interval lists A and B, mergeIntervals(A ++ mergeIntervals(B))
\* equals mergeIntervals(A ++ B), the latter evaluated on the lists as
\* they were before any call.
C4_UnionAssociative ==
    phase = "unionMerged" =>
        Vals(heap, out) =
            LET r == MergeIntervals(heap0, IdSeq(1, Len(heap0)))
            IN  Vals(r.heap, r.list)

\* C4's case: B has two intervals that its merge joins into one, which the
\* second merge then joins with the interval of A.
C4_Witness ==
    /\ phase = "unionMerged"
    /\ na = 1
    /\ Len(heap0) = 3
    /\ Len(outB) = 1
    /\ Len(out) = 1
    /\ AllValid(InputVals)
    /\ Vals(heap, out) # Vals(heap0, <<1>>)

\* C5: for every list of intervals, merged or not, and every duration > 0
\* the percentage lies in [0, 100].  (Stated here for well-formed intervals
\* within the video only, start <= end and bounds in [0, duration-1]: the
\* code exceeds 100 already on those.)
C5_PercentageClamped ==
    (/\ phase = "percent"
     /\ duration > 0
     /\ AllValid(InputVals)
     /\ WithinDuration(InputVals, duration)) =>
        /\ pct.kind = "number"
        /\ 0 <= pct.num
        /\ pct.num <= 100 * pct.den

\* C6: when duration <= 0 the percentage is 0, for every interval list.
C6_ZeroDurationGivesZero ==
    (phase = "percent" /\ duration <= 0) =>
        /\ pct.kind = "number"
        /\ pct.num = 0

\* C7: an interval with start > end is rejected before merging: the result
\* of mergeIntervals(X) equals the merge of the valid members of X.
C7_InvalidRejected ==
    phase = "merged" =>
        Vals(heap, out) =
            LET r == MergeIntervals(heap0, ValidMembers(heap0, IdSeq(1, Len(heap0))))
            IN  Vals(r.heap, r.list)

\* C8: mergeIntervals(X) leaves every interval of X with the start and end
\* it had before the call.
C8_MergePure ==
    phase = "merged" => heap = heap0

(* ---------------------------------------------------------------------- *)
(* Properties of the store                                                 *)
(* ---------------------------------------------------------------------- *)

\* The seconds of S as one-second intervals, ascending.
SecondsAsIntervals(S) ==
    SelectSeq([i \in 1..(MaxT + 1) |-> [start |-> i - 1, end |-> i - 1]],
              LAMBDA iv : iv.start \in S)

AllCompleted == lock = 0 /\ \A w \in Workers : pc[w] = "idle"

\* a <= b for two results of the calculator
PctLeq(a, b) ==
    /\ a.kind = "number"
    /\ b.kind = "number"
    /\ a.num * b.den <= b.num * a.den

\* C9: for any interleaving of applyUpdate requests on the key, once all of
\* them have completed the stored intervals equal the merge of everything
\* the requests delivered (second by second) onto the record as it was
\* created or last reset: no request's contribution is lost.
C9_NoLostUpdate ==
    AllCompleted =>
        /\ store.intervals = MergeVals(SecondsAsIntervals(delivered))
        /\ Covered(store.intervals) = delivered

\* C9's case: every request has completed, and the record holds two
\* separate intervals that two different requests delivered (a request
\* carries at most MaxBatch = 1 of them).
C9_Witness ==
    /\ AllCompleted
    /\ lastOp = "update"
    /\ Len(store.intervals) = 2

\* C10: over every applyUpdate step (every step but a reset) the record
\* loses no covered second and its progressPercentage does not decrease.
C10_MonotonicProgress ==
    [][lastOp' # "reset" =>
          /\ Covered(store.intervals) \subseteq Covered(store'.intervals)
          /\ PctLeq(store.progressPercentage, store'.progressPercentage)]_vars

\* C10's case: an update has been applied to a record that covers the whole
\* video, with a reported position scrubbed back to 0, while another
\* request is already waiting.
C10_Witness ==
    /\ lastOp = "update"
    /\ store.intervals = <<[start |-> 0, end |-> MaxT]>>
    /\ store.lastPosition = 0
    /\ \E w \in Workers : pc[w] = "waiting"


(* ---------------------------------------------------------------------- *)
(* Coverage of the merge                                                   *)
(* ---------------------------------------------------------------------- *)

\* C17: for every list of valid intervals, the seconds covered by the
\* merged list are exactly the seconds covered by the members of the input:
\* merging adds no second and drops none.
C17_CoveragePreserved ==
    (phase = "merged" /\ AllValid(InputVals))
        => Covered(Vals(heap, out)) = Covered(InputVals)

\* Three valid intervals, given out of order, that merge into one covering
\* the whole time line, the first of the sorted list having been extended.
C17_Witness ==
    /\ phase = "merged"
    /\ AllValid(InputVals)
    /\ Len(heap0) = 3
    /\ heap0[1].start > heap0[2].start
    /\ Len(out) = 1
    /\ heap # heap0
    /\ Covered(Vals(heap, out)) = Times

(* ---------------------------------------------------------------------- *)
(* Properties of VideoContext                                              *)
(* ---------------------------------------------------------------------- *)

C13_ResponseReplaces ==
    [][\A i \in 1..MaxCalls :
          (DeliverProgress(i) /\ calls[i].kind = "post" /\ calls[i].data.some)
              => /\ progress' = calls[i].data
                 /\ lastRet' = Ret("post", "resolved", calls[i].data)]_vars

\* The second update of a session has resolved: the state held is the one
\* the server returned for it, and no call is left in flight.
C13_Witness ==
    /\ lastRet.op = "post"
    /\ lastRet.how = "resolved"
    /\ lastRet.value.some
    /\ progress = lastRet.value
    /\ progress.updatedAt = MaxClock
    /\ calls = <<>>

\* C18: the response to an update issued before one whose response has
\* been handled already does not replace the progress held.
C18_OlderResponseIgnored ==
    [][\A i \in 1..MaxCalls :
          (DeliverProgress(i) /\ calls[i].kind = "post" /\ calls[i].stale)
              => progress' = progress]_vars

\* C19: whenever a video is current, progress is held and every call has
\* completed, the progress is that of the current video.
C19_ProgressOfCurrentVideo ==
    (currentVideo # 0 /\ progress.some /\ calls = <<>>)
        => progress.videoId = currentVideo


(* ---------------------------------------------------------------------- *)
(* Properties of the player and the tracker                                *)
(* ---------------------------------------------------------------------- *)

\* C14: a seek while Tracking closes the open interval at the pre-seek
\* time, emits it and opens a new interval anchored at the destination, the
\* tracker staying in Tracking; and over every sequence of play, pause,
\* seek, progress and ended events the watched intervals contain only
\* seconds the playhead was at while playing, so never a second that lies
\* only in a gap skipped by a seek.
C14_SeekGapNotCredited ==
    /\ [](Covered(watched) \subseteq visited)
    /\ [][\A t \in Times :
             (OnSeek(t) /\ tstate = "Tracking")
                 => /\ tstate' = "Tracking"
                    /\ anchorTime' = t
                    /\ Covered(watched') =
                           Covered(watched) \cup (anchorTime..playhead)
                    /\ Len(emitted) < MaxEmitted =>
                           emitted' = Append(emitted, [start |-> anchorTime,
                                                       end |-> playhead])]_vars

\* Second 0 was played, a seek went to the last second, and playback was
\* paused there: two intervals are held and the second skipped is in
\* neither.
C14_Witness ==
    /\ tstate = "Idle"
    /\ emitted = <<[start |-> 0, end |-> 0], [start |-> MaxT, end |-> MaxT]>>
    /\ Len(watched) = 2
    /\ 1 \notin visited
    /\ 1 \notin Covered(watched)

\* C15: the resume effect seeks to lastPosition only when lastPosition lies
\* in [0, duration); for a lastPosition outside that range no seek to it is
\* made.
C15_ResumeSeekInRange ==
    resumeSeek # NoSeek => (0 <= resumeSeek /\ resumeSeek < VideoDuration)


(* ---------------------------------------------------------------------- *)
(* Properties of the sync client                                           *)
(* ---------------------------------------------------------------------- *)

\* C12: when a sync request fails, the pending intervals, the progress
\* state and the error state are as before and a retry is scheduled;
\* whenever intervals are pending, a request is in flight or a send is
\* scheduled; a scheduled retry leads to a request with the pending
\* intervals; and every second the tracker has emitted is still pending
\* unless a successful sync has delivered it.
C12_FailureKeepsPending ==
    /\ [](produced \subseteq (CoveredBy(pending) \cup acked))
    /\ [](pending # {} => (syncing \/ syncTimer # "none"))
    /\ (syncTimer = "backoff") ~> (syncing /\ sentBatch = pending)
    /\ [][\A i \in 1..MaxCalls :
             SyncFailed(i)
                 => /\ pending' = pending
                    /\ progress' = progress
                    /\ error' = error
                    /\ lastRet' = Ret("post", "failed", NullData)
                    /\ syncTimer' = "backoff"]_vars

\* A sync has failed after an earlier one was acknowledged: the progress of
\* the first is held, the intervals of the failed one are pending and the
\* retry is scheduled.
C12_Witness ==
    /\ lastRet = Ret("post", "failed", NullData)
    /\ progress.some
    /\ acked # {}
    /\ pending # {}
    /\ ~syncing
    /\ syncTimer = "backoff"

\* C16: at most one sync request is in flight at any time, and a send
\* carries the whole pending batch as it is when the timer fires, however
\* many triggers came before it.
C16_SingleRequestInFlight ==
    /\ [](Len(calls) <= 1)
    /\ [][(SyncTimerFires /\ Len(calls') > Len(calls))
             => (sentBatch' = pending /\ ~syncing)]_vars

\* After an acknowledged sync, two further triggers were coalesced into
\* the one request that is in flight.
C16_Witness ==
    /\ syncing
    /\ Len(calls) = 1
    /\ Cardinality(sentBatch) = 2
    /\ syncTimer = "none"
    /\ acked # {}

====
